---- MODULE Spec2Model ----
(***************************************************************************)
(* Holt-Winters smoothing of geomagio.algorithm.SQDistAlgorithm:           *)
(* additive() as a state machine (argument checks and defaults, one action *)
(* per loop iteration, the final renormalisation and return), the caller's *)
(* continuation call, and estimate_parameters() with fixed parameters; and  *)
(* the correction-factor table CORR of geomagio.algorithm.AverageAlgorithm  *)
(* with the configure() and process() calls that write and read it.         *)
(*                                                                         *)
(* Floating point values are modelled exactly: a value is a pair <<n, d>>  *)
(* standing for the rational n/d (d > 0, lowest terms), and <<0, 0>> is    *)
(* NaN, which propagates through arithmetic and fails every comparison.    *)
(***************************************************************************)
EXTENDS Integers, Sequences, FiniteSets, TLC

VARIABLES stream, first, off, args, pc, exc, loc, ret, est,
          CORR, algs, out, written, ncalls

\* the state of the smoothing calls
svars == <<stream, first, off, args, pc, exc, loc, ret, est>>

\* the state of the averaging calls
avars == <<CORR, algs, out, written, ncalls>>

vars == <<svars, avars>>

----------------------------------------------------------------------------
(* Bounds of the model *)

\* longest observation series handed to the model
MaxN == 3

\* np.sqrt of a value with no rational root is rounded down to 1/SqrtGrid
SqrtGrid == 64

\* length of the constant series of the baseline-shift scenario
ShiftLen == 6

\* most calls of configure() and process() in one run
MaxCalls == 3

----------------------------------------------------------------------------
(* Exact arithmetic with NaN. The operations are functions of values, so    *)
(* that an argument is computed once wherever the operation is applied.    *)

IAbs(n) == IF n < 0 THEN -n ELSE n

GCD[a \in Nat, b \in Nat] == IF b = 0 THEN a ELSE GCD[b, a % b]

\* the rational n/d in lowest terms, d > 0
Q(n, d) == LET g == GCD[IAbs(n), d] IN <<n \div g, d \div g>>

\* the values: <<n, d>> with d >= 0
Num == Int \X Nat

NaN == <<0, 0>>
Zero == <<0, 1>>
One == <<1, 1>>
Half == <<1, 2>>
I(n) == <<n, 1>>

isnan(x) == x[2] = 0

\* x + y over the least common denominator
add[x \in Num, y \in Num] ==
    IF isnan(x) \/ isnan(y) THEN NaN
    ELSE LET g == GCD[x[2], y[2]]
         IN  Q(x[1] * (y[2] \div g) + y[1] * (x[2] \div g),
               x[2] * (y[2] \div g))

neg[x \in Num] == <<-x[1], x[2]>>

sub[x \in Num, y \in Num] == add[x, neg[y]]

\* x * y, the common factors cancelled before the products are taken
mul[x \in Num, y \in Num] ==
    IF isnan(x) \/ isnan(y) THEN NaN
    ELSE LET g == GCD[IAbs(x[1]), y[2]]
             h == GCD[IAbs(y[1]), x[2]]
         IN  <<(x[1] \div g) * (y[1] \div h), (x[2] \div h) * (y[2] \div g)>>

\* division by a positive integer (the code only divides by m and by counts)
divn[x \in Num, k \in Nat] == IF isnan(x) THEN NaN ELSE Q(x[1], x[2] * k)

abs[x \in Num] == <<IAbs(x[1]), x[2]>>

\* comparisons are False as soon as one side is NaN
gt[x \in Num, y \in Num] ==
    ~isnan(x) /\ ~isnan(y) /\ x[1] * y[2] > y[1] * x[2]

le[x \in Num, y \in Num] ==
    ~isnan(x) /\ ~isnan(y) /\ x[1] * y[2] <= y[1] * x[2]

pow[x \in Num, k \in Nat] == IF k = 0 THEN One ELSE mul[x, pow[x, k - 1]]

isqrtN[n \in Nat, x \in Nat] ==
    LET y == (x + n \div x) \div 2
    IN  IF y >= x THEN x ELSE isqrtN[n, y]

\* floor of the square root of a natural number
isqrt(n) == IF n = 0 THEN 0 ELSE isqrtN[n, n]

\* floor(x * g * g) for x >= 0, by long division
FloorScaled(x, g) ==
    LET w == x[1] \div x[2]
        d1 == (x[1] % x[2]) * g
        d2 == (d1 % x[2]) * g
    IN  w * g * g + (d1 \div x[2]) * g + d2 \div x[2]

\* np.sqrt: exact on squares of rationals (as IEEE sqrt(x*x) = |x|), and
\* otherwise correctly rounded toward zero on the grid 1/SqrtGrid; NaN for
\* NaN (the code never takes the root of a negative number)
sqrt[x \in Num] ==
    IF isnan(x) \/ x[1] < 0 THEN NaN
    ELSE LET rn == isqrt(x[1])
             rd == isqrt(x[2])
         IN  IF rn * rn = x[1] /\ rd * rd = x[2] THEN Q(rn, rd)
             ELSE Q(isqrt(FloorScaled(x, SqrtGrid)), SqrtGrid)

----------------------------------------------------------------------------
(* Sequences with Python's 0-based indices *)

At(q, j) == q[j + 1]

Put(q, j, x) == [q EXCEPT ![j + 1] = x]

\* q[a:b]
Slice(q, a, b) == SubSeq(q, a + 1, IF b < Len(q) THEN b ELSE Len(q))

\* k copies of x
Rep(x, k) == [j \in 1..k |-> x]

RECURSIVE SumNN(_)
SumNN(q) == IF q = <<>> THEN Zero
            ELSE add[IF isnan(Head(q)) THEN Zero ELSE Head(q), SumNN(Tail(q))]

RECURSIVE CountNN(_)
CountNN(q) == IF q = <<>> THEN 0
              ELSE (IF isnan(Head(q)) THEN 0 ELSE 1) + CountNN(Tail(q))

\* np.nanmean: mean of the entries that are not NaN, NaN when there is none
nanmean(q) == IF CountNN(q) = 0 THEN NaN ELSE divn[SumNN(q), CountNN(q)]

\* np.nanvar: population variance of the entries that are not NaN
nanvar(q) == LET mu == nanmean(q)
             IN  nanmean([j \in 1..Len(q) |->
                            mul[sub[q[j], mu], sub[q[j], mu]]])

\* np.cumsum
cumsum[q \in Seq(Num)] ==
    IF Len(q) <= 1 THEN q
    ELSE LET c == cumsum[SubSeq(q, 1, Len(q) - 1)]
         IN  Append(c, add[c[Len(c)], q[Len(q)]])

----------------------------------------------------------------------------
(* Optional arguments: None, a scalar, or an array *)

None == [kind |-> "none", v |-> <<>>]
Scalar(x) == [kind |-> "scalar", v |-> <<x>>]
Array(xs) == [kind |-> "array", v |-> xs]

\* np.isscalar
isscalar(o) == o.kind = "scalar"

Val(o) == o.v[1]

----------------------------------------------------------------------------
(* additive(): argument checks and defaults *)

\* locals of a call that has not set them
NoLoc == [l |-> NaN, b |-> NaN, yhat |-> <<>>, s |-> <<>>, sigma |-> <<>>,
          r |-> <<>>, sumc2_H |-> NaN, phiHminus1 |-> NaN,
          phiJminus1 |-> NaN, sumc2 |-> NaN, jstep |-> 0, sigma2 |-> NaN,
          i |-> 0, br |-> <<>>]

\* one coefficient of the prediction interval: alpha * (1 + phi_j * beta)
\* + gamma * (1 if j % m == 0 else 0)
Coef(a, phij, j) ==
    add[mul[Val(a.alpha), add[One, mul[phij, Val(a.beta)]]],
        mul[Val(a.gamma), IF j % a.m = 0 THEN One ELSE Zero]]

\* the loop "for h in range(1, hstep)": <<phiHminus1, sumc2_H>> after it
RECURSIVE HstepInterval(_, _, _, _)
HstepInterval(a, h, phiH, sumc2) ==
    IF h >= a.hstep THEN <<phiH, sumc2>>
    ELSE LET p == add[phiH, pow[Val(a.phi), h - 1]]
             c == Coef(a, p, h)
         IN  HstepInterval(a, h + 1, p, add[sumc2, mul[c, c]])

\* default level: nanmean(yobs[0:m])
DefaultL(a) == nanmean(Slice(a.yobs, 0, a.m))

\* default slope: (nanmean(yobs[m:2m]) - nanmean(yobs[0:m])) / m, NaN -> 0
DefaultB(a) ==
    LET d == divn[sub[nanmean(Slice(a.yobs, a.m, 2 * a.m)),
                      nanmean(Slice(a.yobs, 0, a.m))], a.m]
    IN  IF isnan(d) THEN Zero ELSE d

\* default seasonal adjustments: yobs[i] - l for i in range(m), NaN -> 0
DefaultS(a, l) ==
    [j \in 1..a.m |-> LET d == sub[a.yobs[j], l]
                      IN  IF isnan(d) THEN Zero ELSE d]

\* default sigma: [sqrt(nanvar(yobs))] * (hstep + 1)
DefaultSigma(a) == Rep(sqrt[nanvar(a.yobs)], a.hstep + 1)

\* an exception: its class and its message
Raise(type, msg) == [type |-> type, msg |-> msg]

NoExc == Raise("", "")

\* the exception the checks and defaults raise, NoExc when they raise none;
\* with s0 left out, yobs[i] for i in range(m) is an IndexError on a series
\* shorter than m
SetupExc(a) ==
    IF a.alpha.kind = "none"
    THEN Raise("AlgorithmException", "alpha is required")
    ELSE IF a.beta.kind = "none"
    THEN Raise("AlgorithmException", "beta is required")
    ELSE IF a.gamma.kind = "none"
    THEN Raise("AlgorithmException", "gamma is required")
    ELSE IF a.phi.kind = "none"
    THEN Raise("AlgorithmException", "phi is required")
    ELSE IF a.l0.kind # "none" /\ ~isscalar(a.l0)
    THEN Raise("AlgorithmException", "l0 must be a scalar")
    ELSE IF a.b0.kind # "none" /\ ~isscalar(a.b0)
    THEN Raise("AlgorithmException", "b0 must be a scalar")
    ELSE IF a.yhat0.kind # "none" /\ Len(a.yhat0.v) # a.hstep
    THEN Raise("AlgorithmException", "yhat0 must have length hstep")
    ELSE IF a.s0.kind = "none" /\ Len(a.yobs) < a.m
    THEN Raise("IndexError", "index out of range")
    ELSE IF a.s0.kind # "none" /\ Len(a.s0.v) # a.m
    THEN Raise("AlgorithmException", "s0 must have length m")
    ELSE IF a.sigma0.kind # "none" /\ Len(a.sigma0.v) # a.hstep + 1
    THEN Raise("AlgorithmException", "sigma0 must have length hstep + 1")
    ELSE NoExc

\* the locals on entry to the loop, for arguments that raise nothing
SetupLoc(a) ==
    LET n == Len(a.yobs) + a.fc
        l == IF a.l0.kind = "none" THEN DefaultL(a) ELSE Val(a.l0)
        b == IF a.b0.kind = "none" THEN DefaultB(a) ELSE Val(a.b0)
        yhat == IF a.yhat0.kind = "none" THEN Rep(NaN, a.hstep) ELSE a.yhat0.v
        s == IF a.s0.kind = "none" THEN DefaultS(a, l) ELSE a.s0.v
        sigma == IF a.sigma0.kind = "none" THEN DefaultSigma(a)
                 ELSE a.sigma0.v
        hi == HstepInterval(a, 1, Zero, One)
    IN  [l |-> l, b |-> b,
         yhat |-> yhat \o Rep(Zero, n),
         s |-> s \o Rep(Zero, n),
         sigma |-> sigma \o Rep(Zero, n),
         r |-> <<nanmean(s)>> \o Rep(Zero, n),
         sumc2_H |-> hi[2], phiHminus1 |-> hi[1],
         phiJminus1 |-> hi[1], sumc2 |-> hi[2], jstep |-> a.hstep,
         sigma2 |-> NaN, i |-> 0, br |-> <<>>]

----------------------------------------------------------------------------
(* additive(): one iteration of the loop *)

\* Predict with the whole slope added to every prediction
PredictTrend(a, v) ==
    LET i == v.i
        sigma2 == IF v.jstep = a.hstep
                  THEN mul[At(v.sigma, i), At(v.sigma, i)] ELSE v.sigma2
    IN  [v EXCEPT
           !.sigma2 = sigma2,
           !.sigma = Put(v.sigma, i + a.hstep + 1, sqrt[mul[sigma2, v.sumc2]]),
           !.yhat = Put(v.yhat, i + a.hstep,
                        add[add[v.l, v.b], At(v.s, i + (a.hstep % a.m))])]

\* the prediction-interval sigma and the hstep-ahead prediction of step i
Predict(a, v) ==
    LET i == v.i
        sigma2 == IF v.jstep = a.hstep
                  THEN mul[At(v.sigma, i), At(v.sigma, i)] ELSE v.sigma2
    IN  [v EXCEPT
           !.sigma2 = sigma2,
           !.sigma = Put(v.sigma, i + a.hstep + 1, sqrt[mul[sigma2, v.sumc2]]),
           !.yhat = Put(v.yhat, i + a.hstep,
                        add[add[v.l, mul[v.phiHminus1, v.b]],
                            At(v.s, i + (a.hstep % a.m))])]

\* Residual taken against the observation one step ahead
ResidualAhead(a, v) ==
    IF v.i + 1 < Len(a.yobs) THEN sub[At(a.yobs, v.i + 1), At(v.yhat, v.i)]
    ELSE IF v.i < Len(a.yobs) THEN sub[At(a.yobs, v.i), At(v.yhat, v.i)]
    ELSE NaN

\* et: the discrepancy between observation and prediction at step i
Residual(a, v) ==
    IF v.i < Len(a.yobs) THEN sub[At(a.yobs, v.i), At(v.yhat, v.i)] ELSE NaN

\* Gate without the outlier test
GateMissingOnly(et, zthresh, sig) == isnan(et)

\* np.isnan(et) or np.abs(et) > zthresh * sigma[i]
Gate(et, zthresh, sig) == isnan(et) \/ gt[abs[et], mul[zthresh, sig]]

\* SigmaUpdate with the signed error in place of its magnitude
SigmaUpdateSigned(alpha, et, sig) ==
    add[mul[alpha, et], mul[sub[One, alpha], sig]]

\* alpha * |et| + (1 - alpha) * sigma[i]
SigmaUpdate(alpha, et, sig) ==
    add[mul[alpha, abs[et]], mul[sub[One, alpha], sig]]

\* the branch that updates l, b and s assuming et == 0
Forecast(a, v, et) ==
    LET i == v.i
        phi == Val(a.phi)
        w == [v EXCEPT !.r = Put(v.r, i + 1, Zero),
                       !.s = Put(v.s, i + a.m, At(v.s, i)),
                       !.l = add[v.l, mul[phi, v.b]],
                       !.b = mul[phi, v.b]]
    IN  IF isnan(et)
        THEN LET pj == add[v.phiJminus1, pow[phi, v.jstep]]
                 c == Coef(a, pj, v.jstep)
             IN  [w EXCEPT !.phiJminus1 = pj,
                           !.sumc2 = add[v.sumc2, mul[c, c]],
                           !.jstep = v.jstep + 1,
                           !.br = Append(v.br, "gap")]
        ELSE [w EXCEPT !.sigma = Put(v.sigma, i + 1,
                                     SigmaUpdate(Val(a.alpha), et, At(v.sigma, i))),
                       !.br = Append(v.br, "reject")]

\* Corrector without the division by m
CorrectorWhole(a, et) ==
    mul[mul[Val(a.gamma), sub[One, Val(a.alpha)]], et]

\* the seasonal-mean correction of a smoothed step:
\* gamma * (1 - alpha) * et / m
Corrector(a, et) ==
    divn[mul[mul[Val(a.gamma), sub[One, Val(a.alpha)]], et], a.m]

\* the branch that updates l, b and s by filtering et
Smooth(a, v, et) ==
    LET i == v.i
        alpha == Val(a.alpha)
        phi == Val(a.phi)
        g == mul[mul[Val(a.gamma), sub[One, alpha]], et]
    IN  [v EXCEPT !.r = Put(v.r, i + 1, Corrector(a, et)),
                  !.s = Put(v.s, i + a.m, add[At(v.s, i), g]),
                  !.l = add[add[v.l, mul[phi, v.b]], mul[alpha, et]],
                  !.b = add[mul[phi, v.b], mul[mul[alpha, Val(a.beta)], et]],
                  !.sigma = Put(v.sigma, i + 1,
                                SigmaUpdate(alpha, et, At(v.sigma, i))),
                  !.sumc2 = v.sumc2_H,
                  !.phiJminus1 = v.phiHminus1,
                  !.jstep = a.hstep,
                  !.br = Append(v.br, "smooth")]

\* the body of "for i in range(len(yobs) + fc)"
LoopBody(a, v) ==
    LET p == Predict(a, v)
        et == Residual(a, p)
        u == IF Gate(et, a.zthresh, At(p.sigma, p.i))
             THEN Forecast(a, p, et) ELSE Smooth(a, p, et)
    IN  [u EXCEPT !.i = v.i + 1]

----------------------------------------------------------------------------
(* additive(): renormalisation and return *)

\* what a call that has not returned holds
NoRet == [yhat |-> <<>>, s |-> <<>>, sigma |-> <<>>, yhat0next |-> <<>>,
          s0next |-> <<>>, l0next |-> NaN, b0next |-> NaN,
          sigma0next |-> <<>>, alpha |-> NaN, beta |-> NaN, gamma |-> NaN]

\* s - hstack((r, tile(r[-1], m - 1))) for the integrated r
Renormalise(s, r, m) ==
    LET c == r \o Rep(r[Len(r)], m - 1)
    IN  [j \in 1..Len(s) |-> sub[s[j], c[j]]]

\* Cont with the slice started one entry late
ContLate(q, n) == Slice(q, n + 1, Len(q))

\* q[n:], what is kept for the next call
Cont(q, n) == Slice(q, n, Len(q))

\* the 11 values additive() returns
Finish(a, v) ==
    LET n == Len(a.yobs) + a.fc
        r == cumsum[v.r]
        s == Renormalise(v.s, r, a.m)
    IN  [yhat |-> Slice(v.yhat, 0, n),
         s |-> Slice(s, 0, n),
         sigma |-> Slice(v.sigma, 1, n + 1),
         yhat0next |-> Cont(v.yhat, n),
         s0next |-> Cont(s, n),
         l0next |-> add[v.l, r[Len(r)]],
         b0next |-> v.b,
         sigma0next |-> Cont(v.sigma, n),
         alpha |-> Val(a.alpha), beta |-> Val(a.beta), gamma |-> Val(a.gamma)]

\* the loop run to its end
RECURSIVE Iterate(_, _)
Iterate(a, v) ==
    IF v.i < Len(a.yobs) + a.fc THEN Iterate(a, LoopBody(a, v)) ELSE v

\* additive() as a function of its arguments: the exception it raises
\* (NoExc for none) and the values it returns
additive(a) ==
    IF SetupExc(a) # NoExc THEN [exc |-> SetupExc(a), ret |-> NoRet]
    ELSE [exc |-> NoExc, ret |-> Finish(a, Iterate(a, SetupLoc(a)))]

----------------------------------------------------------------------------
(* estimate_parameters() with alpha, beta and gamma all supplied *)

\* func(params): the RMSE of additive() run with the candidate parameters;
\* the call passes l0, b0, s0, zthresh and hstep and leaves phi, yhat0,
\* sigma0 and fc to additive()'s defaults
FuncArgs(a, params) ==
    [a EXCEPT !.alpha = Scalar(params[1]), !.beta = Scalar(params[2]),
              !.gamma = Scalar(params[3]), !.phi = Scalar(One),
              !.yhat0 = None, !.sigma0 = None, !.fc = 0]

\* np.sqrt(np.nanmean(np.square(np.subtract(yobs, yhat))))
RMSE(yobs, yhat) ==
    sqrt[nanmean([j \in 1..Len(yobs) |->
                    mul[sub[yobs[j], yhat[j]], sub[yobs[j], yhat[j]]]])]

func(a, params) ==
    LET res == additive(FuncArgs(a, params))
    IN  IF res.exc # NoExc THEN [exc |-> res.exc, error |-> NaN]
        ELSE [exc |-> NoExc, error |-> RMSE(a.yobs, res.ret.yhat)]

NoEst == [exc |-> NoExc, alpha |-> NaN, beta |-> NaN, gamma |-> NaN,
          rmse |-> NaN]

\* fmin_l_bfgs_b over the box boundaries = [(alpha, alpha), (beta, beta),
\* (gamma, gamma)] started at initial_values = [alpha, beta, gamma]: the box
\* is one point, which the optimiser returns with func's value there
estimate_parameters(a) ==
    LET initial_values == <<Val(a.alpha), Val(a.beta), Val(a.gamma)>>
        f == func(a, initial_values)
    IN  [exc |-> f.exc,
         alpha |-> IF f.exc = NoExc THEN initial_values[1] ELSE NaN,
         beta |-> IF f.exc = NoExc THEN initial_values[2] ELSE NaN,
         gamma |-> IF f.exc = NoExc THEN initial_values[3] ELSE NaN,
         rmse |-> f.error]

----------------------------------------------------------------------------
(* AverageAlgorithm: the table CORR, configure() and process() *)

\* the table as the module defines it
InitialCORR == [st \in {"HON", "SJG", "HER", "KAK", "GUA"} |-> One]

\* CORR[key] = value
SetItem(C, key, value) ==
    [st \in DOMAIN C \cup {key} |-> IF st = key THEN value ELSE C[st]]

\* the truth value Python gives a scale: None and 0.0 are false
Truthy(o) == o.kind # "none" /\ Val(o) # Zero

\* an instance that has not been constructed
NoAlg == [made |-> FALSE, observatories |-> <<>>, outchannel |-> "",
          scales |-> <<None>>, npts |-> -1, stt |-> -1]

\* AverageAlgorithm(observatories, channel, scales); observatories None is
\* <<>> and channel None is "", which every test of them treats alike
New(observatories, channel, scales) ==
    [made |-> TRUE, observatories |-> observatories, outchannel |-> channel,
     scales |-> scales, npts |-> -1, stt |-> -1]

\* numpy.isnan(ts.data).all()
AllNaN(data) == \A k \in 1..Len(data) : isnan(data[k])

\* the checks check_stream() makes on one trace
TraceExc(ts, npts, stt) ==
    IF Len(ts.data) # npts
    THEN Raise("AlgorithmException",
               "Received timeseries have different lengths")
    ELSE IF AllNaN(ts.data)
    THEN Raise("AlgorithmException", "Trace is completely empty")
    ELSE IF ts.starttime # stt
    THEN Raise("AlgorithmException",
               "Received timeseries have different starttimes")
    ELSE NoExc

\* check_stream(): the instance after it and the exception it raises
check_stream(a, timeseries) ==
    IF Len(timeseries) # Len(a.observatories)
    THEN [alg |-> a,
          exc |-> Raise("AlgorithmException", "Expected data for stations")]
    ELSE IF timeseries = <<>> THEN [alg |-> a, exc |-> NoExc]
    ELSE LET b == [a EXCEPT !.npts = Len(timeseries[1].data),
                            !.stt = timeseries[1].starttime]
             bad == {k \in 1..Len(timeseries) :
                       TraceExc(timeseries[k], b.npts, b.stt) # NoExc}
             k1 == CHOOSE k \in bad : \A j \in bad : k <= j
         IN  [alg |-> b,
              exc |-> IF bad = {} THEN NoExc
                      ELSE TraceExc(timeseries[k1], b.npts, b.stt)]

\* CORR after "if obs not in CORR: CORR.update({str(obs): 1.0})" for every
\* observatory
AddMissing(C, observatories) ==
    [st \in DOMAIN C \cup {observatories[k] : k \in 1..Len(observatories)} |->
        IF st \in DOMAIN C THEN C[st] ELSE One]

\* CORR after "CORR[obs] = self.scales[i]" for the first n observatories
RECURSIVE WriteScales(_, _, _, _)
WriteScales(C, observatories, scales, n) ==
    IF n = 0 THEN C
    ELSE SetItem(WriteScales(C, observatories, scales, n - 1),
                 observatories[n], Val(scales[n]))

\* the assignments "CORR[obs] = self.scales[i]" those n iterations make, in
\* order: <<station, value>>
Assignments(observatories, scales, n) ==
    [k \in 1..n |-> <<observatories[k], Val(scales[k])>>]

\* the number of iterations of "for (i, obs) in enumerate(observatories)"
\* that assign; the next one, if any, is an IndexError on scales[i]
Assigned(observatories, scales) ==
    IF Len(scales) < Len(observatories) THEN Len(scales)
    ELSE Len(observatories)

\* latcorr read from a table that holds the module's values
latcorrInitial(C, obsy) ==
    IF obsy \in DOMAIN InitialCORR THEN InitialCORR[obsy] ELSE One

\* latcorr: CORR[obsy], 1.0 for a station not in CORR
latcorr(C, obsy) == IF obsy \in DOMAIN C THEN C[obsy] ELSE One

\* numpy.mean(combined, axis=0)
RECURSIVE Sum(_)
Sum(q) == IF q = <<>> THEN Zero ELSE add[Head(q), Sum(Tail(q))]

mean(combined) ==
    [j \in 1..Len(combined[1]) |->
        divn[Sum([k \in 1..Len(combined) |-> combined[k][j]]),
             Len(combined)]]

\* what a call hands back: the instance and the table after it, the
\* assignments to CORR it made, the exception it raised, and for process()
\* the factor of each observatory and the averaged trace
Outcome(a, C, assignments, e, factors, data) ==
    [alg |-> a, CORR |-> C, assignments |-> assignments, exc |-> e,
     latcorr |-> factors, data |-> data, channel |-> a.outchannel]

\* process(): lines 99-143
process(a, C, timeseries) ==
    LET a1 == [a EXCEPT
                 !.outchannel = IF @ = "" THEN timeseries[1].channel ELSE @,
                 !.observatories =
                     IF @ = <<>>
                     THEN [k \in 1..Len(timeseries) |-> timeseries[k].station]
                     ELSE @]
        obs == a1.observatories
        scales == a1.scales
        n == Assigned(obs, scales)
        writes == scales # <<>> /\ Truthy(scales[1])
        C1 == IF writes THEN WriteScales(AddMissing(C, obs), obs, scales, n)
              ELSE C
        done == IF writes THEN Assignments(obs, scales, n) ELSE <<>>
        cs == check_stream(a1, timeseries)
        \* timeseries.select(station=obsy)
        select(obsy) == {j \in 1..Len(timeseries) :
                           timeseries[j].station = obsy}
        first0(obsy) ==
            timeseries[CHOOSE j \in select(obsy) :
                          \A k \in select(obsy) : j <= k]
        factors == [k \in 1..Len(obs) |-> latcorr(C1, obs[k])]
        combined == [k \in 1..Len(obs) |->
                       [j \in 1..Len(first0(obs[k]).data) |->
                          mul[first0(obs[k]).data[j], factors[k]]]]
    IN  IF scales = <<>>
        THEN Outcome(a1, C, <<>>, Raise("IndexError", "index out of range"),
                     <<>>, <<>>)
        ELSE IF writes /\ n < Len(obs)
        THEN Outcome(a1, C1, done, Raise("IndexError", "index out of range"),
                     <<>>, <<>>)
        ELSE IF cs.exc # NoExc
        THEN Outcome(cs.alg, C1, done, cs.exc, <<>>, <<>>)
        ELSE IF \E k \in 1..Len(obs) : select(obs[k]) = {}
        THEN Outcome(cs.alg, C1, done,
                     Raise("IndexError", "index out of range"), <<>>, <<>>)
        ELSE Outcome(cs.alg, C1, done, NoExc, factors, mean(combined))

\* configure(): lines 170-184
configure(a, C, arguments) ==
    LET a1 == [a EXCEPT !.observatories = arguments.observatory]
        a2 == IF arguments.outchannels # <<>>
              THEN [a1 EXCEPT !.outchannel = arguments.outchannels[1]]
              ELSE a1
        a3 == [a2 EXCEPT !.scales = arguments.average_observatory_scale]
        obs == a3.observatories
        scales == a3.scales
    IN  IF Len(arguments.outchannels) > 1
        THEN Outcome(a1, C, <<>>,
                     Raise("AlgorithmException",
                           "Only 1 channel can be specified"), <<>>, <<>>)
        ELSE IF scales = <<>>
        THEN Outcome(a3, C, <<>>, Raise("IndexError", "index out of range"),
                     <<>>, <<>>)
        ELSE IF scales[1].kind = "none"
        THEN Outcome(a3, C, <<>>, NoExc, <<>>, <<>>)
        ELSE IF Len(obs) # Len(scales)
        THEN Outcome(a3, C, <<>>,
                     Raise("AlgorithmException",
                           "Mismatch between observatories and scale factors"),
                     <<>>, <<>>)
        ELSE Outcome(a3, WriteScales(C, obs, scales, Len(obs)),
                     Assignments(obs, scales, Len(obs)), NoExc, <<>>, <<>>)

\* no call of configure() or process() made yet
NoOut == [op |-> "", inst |-> 0, exc |-> NoExc, latcorr |-> <<>>,
          data |-> <<>>, channel |-> ""]

\* the AverageAlgorithm instances of the process
Insts == {1, 2}

\* no assignment to CORR made yet
NoneWritten == [st \in {} |-> One]

\* the last value assigned to each station, after the assignments of a call
RECURSIVE Record(_, _)
Record(w, assignments) ==
    IF assignments = <<>> THEN w
    ELSE Record(SetItem(w, Head(assignments)[1], Head(assignments)[2]),
                Tail(assignments))

\* the module has been imported and no AverageAlgorithm constructed
Imported ==
    /\ CORR = InitialCORR
    /\ algs = [i \in Insts |-> NoAlg]
    /\ out = NoOut
    /\ written = NoneWritten
    /\ ncalls = 0

----------------------------------------------------------------------------
(* Inputs *)

\* observations: missing, or one of three levels
ObsVals == {NaN, Zero, I(4)}

RECURSIVE SeqsUpTo(_, _)
SeqsUpTo(S, n) ==
    IF n = 0 THEN {<<>>}
    ELSE LET T == SeqsUpTo(S, n - 1)
         IN  T \cup {Append(q, x) : q \in {t \in T : Len(t) = n - 1}, x \in S}

Streams == SeqsUpTo(ObsVals, MaxN)

\* <<alpha, beta, gamma, phi>>
Params == {<<Zero, Zero, Zero, One>>, <<Zero, Zero, Zero, Half>>,
           <<Half, Half, Half, One>>, <<Half, Zero, Half, Half>>,
           <<One, Half, Zero, One>>}

Ms == {1, 2}

Zthreshs == {I(2)}

\* <<hstep, fc>>
Horizons == {<<0, 0>>, <<0, 1>>, <<1, 0>>, <<2, 0>>}

\* the initial state a caller supplies for m seasons and horizon hstep
GivenS0(m) == IF m = 1 THEN <<One>> ELSE <<I(2), Zero>> \o Rep(Zero, m - 2)

Call(m, p, z, h, l0, b0, s0, yhat0, sigma0) ==
    [yobs |-> <<>>, m |-> m,
     alpha |-> p[1], beta |-> p[2], gamma |-> p[3], phi |-> p[4],
     yhat0 |-> yhat0, s0 |-> s0, l0 |-> l0, b0 |-> b0, sigma0 |-> sigma0,
     zthresh |-> z, fc |-> h[2], hstep |-> h[1]]

Supplied(p) == <<Scalar(p[1]), Scalar(p[2]), Scalar(p[3]), Scalar(p[4])>>

\* calls with the initial state supplied
GivenCalls ==
    {Call(m, Supplied(p), z, h, Scalar(Zero), Scalar(One), Array(GivenS0(m)),
          Array(Rep(I(2), h[1])), Array(Rep(One, h[1] + 1))) :
       m \in Ms, p \in Params, z \in Zthreshs, h \in Horizons}

\* calls that leave the initial state to the defaults
DefaultCalls ==
    {Call(m, Supplied(p), z, h, None, None, None, None, None) :
       m \in Ms, p \in {<<Zero, Zero, Zero, Half>>, <<Half, Half, Half, One>>},
       z \in Zthreshs, h \in Horizons \ {<<2, 0>>}}

\* calls with one argument missing or malformed
BadCalls ==
    LET ok == <<Half, Half, Half, One>>
        g(p, l0, b0, s0, yhat0, sigma0) ==
            Call(2, p, I(2), <<1, 0>>, l0, b0, s0, yhat0, sigma0)
        L == Scalar(Zero)
        S == Array(GivenS0(2))
        Y == Array(<<Zero>>)
        G == Array(<<One, One>>)
    IN  {g([Supplied(ok) EXCEPT ![k] = None], L, L, S, Y, G) : k \in 1..4}
        \cup {g(Supplied(ok), Array(<<Zero>>), L, S, Y, G),
              g(Supplied(ok), L, Array(<<Zero, Zero>>), S, Y, G),
              g(Supplied(ok), L, L, Array(<<Zero>>), Y, G),
              g(Supplied(ok), L, L, S, Array(<<>>), G),
              g(Supplied(ok), L, L, S, Y, Array(<<One>>)),
              g(Supplied(ok), None, None, None, Array(<<Zero, Zero>>), None)}

Calls == GivenCalls \cup DefaultCalls \cup BadCalls

----------------------------------------------------------------------------
(* The state machine *)

\* stream: every observation handed to additive() so far; first: the
\* arguments of the first call; off: where the present call's yobs starts
\* in stream

\* a caller hands a series to additive() or to estimate_parameters()
Init ==
    /\ stream \in Streams
    /\ \E c \in Calls : args = [c EXCEPT !.yobs = stream]
    /\ first = args
    /\ off = 0
    /\ pc = "start"
    /\ exc = NoExc
    /\ loc = NoLoc
    /\ ret = NoRet
    /\ est = NoEst
    /\ Imported

\* additive() is entered: the checks raise, or the locals are set up
Begin ==
    /\ pc = "start"
    /\ exc' = SetupExc(args)
    /\ IF exc' = NoExc
       THEN pc' = "loop" /\ loc' = SetupLoc(args)
       ELSE pc' = "raised" /\ loc' = loc
    /\ UNCHANGED <<stream, first, off, args, ret, est>>
    /\ UNCHANGED avars

\* one iteration of the loop
LoopStep ==
    /\ pc = "loop"
    /\ loc.i < Len(args.yobs) + args.fc
    /\ loc' = LoopBody(args, loc)
    /\ UNCHANGED <<stream, first, off, args, pc, exc, ret, est>>
    /\ UNCHANGED avars

\* the loop is over: renormalise and return
Return ==
    /\ pc = "loop"
    /\ loc.i = Len(args.yobs) + args.fc
    /\ ret' = Finish(args, loc)
    /\ pc' = "done"
    /\ UNCHANGED <<stream, first, off, args, exc, loc, est>>
    /\ UNCHANGED avars

\* additive() is called with new observations and the continuation that
\* the call before returned ("use as yhat0 when function called again with
\* new observations", and so on for s0, l0, b0 and sigma0)
Continue(more) ==
    /\ args' = [args EXCEPT !.yobs = more,
                            !.yhat0 = Array(ret.yhat0next),
                            !.s0 = Array(ret.s0next),
                            !.l0 = Scalar(ret.l0next),
                            !.b0 = Scalar(ret.b0next),
                            !.sigma0 = Array(ret.sigma0next)]
    /\ stream' = stream \o more
    /\ off' = Len(stream)
    /\ pc' = "start"
    /\ loc' = NoLoc
    /\ ret' = NoRet
    /\ UNCHANGED <<first, exc, est>>
    /\ UNCHANGED avars

\* the caller calls additive() again with the observations that came next
CallAgain ==
    /\ pc = "done"
    /\ args.fc = 0
    /\ \E more \in Streams :
          /\ more # <<>>
          /\ Len(stream) + Len(more) <= MaxN
          /\ Continue(more)

\* the caller calls estimate_parameters() with alpha, beta and gamma fixed
Estimate ==
    /\ pc = "start"
    /\ off = 0
    /\ args.alpha.kind # "none" /\ args.beta.kind # "none"
    /\ args.gamma.kind # "none"
    /\ est' = estimate_parameters(args)
    /\ pc' = "estimated"
    /\ UNCHANGED <<stream, first, off, args, exc, loc, ret>>
    /\ UNCHANGED avars

Next == Begin \/ LoopStep \/ Return \/ CallAgain \/ Estimate

Spec == Init /\ [][Next]_vars

----------------------------------------------------------------------------
(* A baseline shift: every observation is present and sits at one value *)

ShiftVals == {I(8), I(-8)}

ShiftZthreshs == {<<3, 2>>, I(2)}

ShiftSigmas == {<<1, 4>>, One}

\* calls with alpha > 0 and zthresh > 1
ShiftCalls ==
    {Call(m, Supplied(p), z, <<h, 0>>, Scalar(Zero), Scalar(One),
          Array(GivenS0(m)), Array(Rep(I(2), h)), Array(Rep(sg, h + 1))) :
       m \in Ms, p \in {q \in Params : q[1] # Zero}, z \in ShiftZthreshs,
       h \in {0, 1}, sg \in ShiftSigmas}

InitShift ==
    /\ \E y \in ShiftVals, k \in 1..3 : stream = Rep(y, k)
    /\ \E c \in ShiftCalls : args = [c EXCEPT !.yobs = stream]
    /\ first = args
    /\ off = 0
    /\ pc = "start"
    /\ exc = NoExc
    /\ loc = NoLoc
    /\ ret = NoRet
    /\ est = NoEst
    /\ Imported

\* the caller calls additive() again with more observations at the value
ShiftAgain ==
    /\ pc = "done"
    /\ args.fc = 0
    /\ \E k \in 1..2 :
          /\ Len(stream) + k <= ShiftLen
          /\ Continue(Rep(stream[1], k))

ShiftNext == Begin \/ LoopStep \/ Return \/ ShiftAgain

\* a call runs to its end, and the caller goes on calling while
\* observations come in
ShiftSpec == InitShift /\ [][ShiftNext]_vars /\ WF_vars(ShiftNext)

----------------------------------------------------------------------------
(* AverageAlgorithm: instances are constructed, configured and run *)

\* written: the value last assigned to each station by "CORR[obs] = ..." of
\* any instance; out: the last call and what it handed back

\* HON is in the table the module defines, BOU is not
ObsLists == {<<"HON">>, <<"HON", "BOU">>}

\* scales: the default [None, ], an empty list, and lists of floats
ScaleLists == {<<None>>, <<>>, <<Scalar(Zero)>>, <<Scalar(I(2))>>,
               <<Scalar(I(2)), Scalar(I(3))>>}

Trace(station, starttime, data) ==
    [station |-> station, channel |-> "H", starttime |-> starttime,
     data |-> data]

\* streams that pass check_stream() for one or two observatories, and one
\* that fails each of its checks
Timeseries ==
    LET hon == Trace("HON", 0, <<I(4)>>)
    IN  {<<hon>>,
         <<hon, Trace("BOU", 0, <<I(8)>>)>>,
         <<hon, Trace("BOU", 0, <<NaN>>)>>,
         <<hon, Trace("BOU", 1, <<I(8)>>)>>,
         <<hon, Trace("BOU", 0, <<I(8), NaN>>)>>,
         <<hon, hon>>}

Arguments ==
    [observatory : ObsLists, outchannels : {<<>>, <<"H">>, <<"H", "E">>},
     average_observatory_scale : ScaleLists]

InitAverage ==
    /\ stream = <<>>
    /\ args = Call(1, Supplied(<<Zero, Zero, Zero, One>>), I(2), <<0, 0>>,
                   None, None, None, None, None)
    /\ first = args
    /\ off = 0
    /\ pc = "start"
    /\ exc = NoExc
    /\ loc = NoLoc
    /\ ret = NoRet
    /\ est = NoEst
    /\ Imported

\* AverageAlgorithm(...)
Construct ==
    \E i \in Insts, observatories \in {<<>>, <<"HON", "BOU">>},
       scales \in {<<None>>, <<Scalar(I(2))>>} :
        /\ ~algs[i].made
        /\ algs' = [algs EXCEPT ![i] = New(observatories, "", scales)]
        /\ UNCHANGED <<CORR, out, written, ncalls>>
        /\ UNCHANGED svars

\* a call hands back r
Called(op, i, r) ==
    /\ algs' = [algs EXCEPT ![i] = r.alg]
    /\ CORR' = r.CORR
    /\ written' = Record(written, r.assignments)
    /\ out' = [op |-> op, inst |-> i, exc |-> r.exc, latcorr |-> r.latcorr,
               data |-> r.data, channel |-> r.channel]
    /\ ncalls' = ncalls + 1
    /\ UNCHANGED svars

\* algs[i].configure(arguments)
Configure ==
    \E i \in Insts, arguments \in Arguments :
        /\ algs[i].made
        /\ ncalls < MaxCalls
        /\ Called("configure", i, configure(algs[i], CORR, arguments))

\* algs[i].process(timeseries)
Process ==
    \E i \in Insts, timeseries \in Timeseries :
        /\ algs[i].made
        /\ ncalls < MaxCalls
        /\ Called("process", i, process(algs[i], CORR, timeseries))

AverageNext == Construct \/ Configure \/ Process

AverageSpec == InitAverage /\ [][AverageNext]_vars

----------------------------------------------------------------------------
(* Claims *)

\* the initial state of a call is supplied, not left to the defaults
GivenState(a) ==
    /\ a.l0.kind = "scalar" /\ a.b0.kind = "scalar"
    /\ a.s0.kind = "array" /\ a.sigma0.kind = "array"

\* one run of additive() over every observation handed out so far, with
\* the arguments of the first call
FullRun == additive([first EXCEPT !.yobs = stream]).ret

\* C1: resumability. A call that continues from the continuation of the
\* calls before it returns, for its steps, the yhat, seasonal and sigma that
\* one call over the whole series returns for them (stated for a first call
\* whose initial state is supplied, so that both runs start from one state).
C1_Resumable ==
    (pc = "done" /\ off > 0 /\ GivenState(first)) =>
        LET n == Len(args.yobs)
        IN  /\ ret.yhat = SubSeq(FullRun.yhat, off + 1, off + n)
            /\ ret.s = SubSeq(FullRun.s, off + 1, off + n)
            /\ ret.sigma = SubSeq(FullRun.sigma, off + 1, off + n)

\* the arguments of a call that continues from what this call returned
NextArgs == [args EXCEPT !.yhat0 = Array(ret.yhat0next),
                         !.s0 = Array(ret.s0next),
                         !.l0 = Scalar(ret.l0next),
                         !.b0 = Scalar(ret.b0next),
                         !.sigma0 = Array(ret.sigma0next)]

\* C2: a call over N observations returns yhat, seasonal and sigma of
\* N + fc entries each and a continuation of hstep yhat values, m seasonal
\* values and hstep + 1 sigma values, which passes the checks of a
\* following call with the same m and hstep.
C2_Lengths ==
    pc = "done" =>
        LET n == Len(args.yobs) + args.fc
        IN  /\ Len(ret.yhat) = n
            /\ Len(ret.s) = n
            /\ Len(ret.sigma) = n
            /\ Len(ret.yhat0next) = args.hstep
            /\ Len(ret.s0next) = args.m
            /\ Len(ret.sigma0next) = args.hstep + 1
            /\ SetupExc(NextArgs) = NoExc

\* a call with a horizon and forecast steps, of two observations or more,
\* has returned
C2_Witness ==
    /\ pc = "done"
    /\ Len(args.yobs) >= 2
    /\ args.hstep = 2
    /\ args.m = 2

\* the sigma the code starts from
InitialSigma(a) == IF a.sigma0.kind = "none" THEN DefaultSigma(a)
                   ELSE a.sigma0.v

\* step j (counted from 1) of the present call was not assimilated: its
\* observation was missing or rejected as an outlier
Extrapolated(j) == loc.br[j] # "smooth"

\* C3: over consecutive steps whose observation is missing or rejected, the
\* sigma output is non-negative and does not decrease from one step to the
\* next, given a non-negative initial sigma and alpha in [0, 1].
C3_SigmaMonotone ==
    (/\ pc \in {"loop", "done"}
     /\ \A k \in 1..(args.hstep + 1) : le[Zero, InitialSigma(args)[k]]
     /\ le[Zero, Val(args.alpha)] /\ le[Val(args.alpha), One]) =>
        \A j \in 1..(Len(loc.br) - 1) :
            (Extrapolated(j) /\ Extrapolated(j + 1)) =>
                /\ le[Zero, loc.sigma[j + 1]]
                /\ le[loc.sigma[j + 1], loc.sigma[j + 2]]

\* what the claim calls a misconfigured call
BadConfig(a) ==
    \/ a.alpha.kind = "none" \/ a.beta.kind = "none"
    \/ a.gamma.kind = "none" \/ a.phi.kind = "none"
    \/ (a.l0.kind # "none" /\ ~isscalar(a.l0))
    \/ (a.b0.kind # "none" /\ ~isscalar(a.b0))
    \/ (a.s0.kind # "none" /\ Len(a.s0.v) # a.m)
    \/ (a.yhat0.kind # "none" /\ Len(a.yhat0.v) # a.hstep)
    \/ (a.sigma0.kind # "none" /\ Len(a.sigma0.v) # a.hstep + 1)

\* C4: a misconfigured call fails with an AlgorithmException before any
\* step of the loop runs and returns nothing; every other call never
\* raises, and returns the complete result.
C4_ConfigErrorOrResult ==
    /\ BadConfig(args) =>
          /\ pc \in {"start", "raised", "estimated"}
          /\ ret = NoRet /\ loc = NoLoc
          /\ pc = "raised" => exc.type = "AlgorithmException"
    /\ ~BadConfig(args) =>
          /\ pc # "raised"
          /\ pc = "done" => (ret # NoRet /\ loc.i = Len(args.yobs) + args.fc)

\* C5 as claimed: the returned seasonal output has mean 0 over every window
\* of m consecutive entries.
C5_WindowMeanZero ==
    pc = "done" =>
        \A j \in 1..(Len(ret.s) - args.m + 1) :
            nanmean(SubSeq(ret.s, j, j + args.m - 1)) = Zero

\* C5, amended: the m seasonal values returned as the continuation s0next
\* have mean 0, whatever the mix of assimilated and extrapolated steps.
C5_ContinuationMeanZero ==
    pc = "done" => nanmean(ret.s0next) = Zero

\* a call with two seasons returned after a step that was assimilated with
\* a correction other than 0 and a step that was not
C5_Witness ==
    /\ pc = "done"
    /\ args.m = 2
    /\ \E j \in 1..Len(loc.br) : loc.br[j] = "smooth" /\ loc.r[j + 1] # Zero
    /\ \E j \in 1..Len(loc.br) : loc.br[j] # "smooth"

\* alpha = beta = gamma = 0 and hstep = 0
Degenerate(a) ==
    /\ Val(a.alpha) = Zero /\ Val(a.beta) = Zero /\ Val(a.gamma) = Zero
    /\ a.hstep = 0

\* phi + phi^2 + ... + phi^k
RECURSIVE Damping(_, _)
Damping(phi, k) == IF k = 0 THEN Zero
                   ELSE add[Damping(phi, k - 1), pow[phi, k]]

\* C6 as claimed: with alpha = beta = gamma = 0 and hstep = 0, yhat[i] is the
\* initial level plus the initial seasonal value at position i mod m.
C6_ConstantLevel ==
    (pc = "done" /\ Degenerate(args)) =>
        \A i \in 0..(Len(ret.yhat) - 1) :
            At(ret.yhat, i) = add[SetupLoc(args).l,
                                  At(SetupLoc(args).s, i % args.m)]

\* C6, amended: yhat[i] is the initial level, plus the initial slope times
\* phi + ... + phi^i, plus the initial seasonal value at position i mod m:
\* the level is constant only when the initial slope is 0.
C6_DampedTrend ==
    (pc = "done" /\ Degenerate(args)) =>
        \A i \in 0..(Len(ret.yhat) - 1) :
            At(ret.yhat, i) =
                add[add[SetupLoc(args).l,
                        mul[SetupLoc(args).b, Damping(Val(args.phi), i)]],
                    At(SetupLoc(args).s, i % args.m)]

\* a degenerate call over three steps with a slope, damped, has returned
C6_Witness ==
    /\ pc = "done" /\ Degenerate(args)
    /\ Len(ret.yhat) >= 3
    /\ SetupLoc(args).b # Zero
    /\ Val(args.phi) = Half
    /\ \E j \in 1..Len(loc.br) : loc.br[j] = "smooth"

\* the call of additive() with the arguments given to estimate_parameters()
\* (fc, which the claim does not name, left at 0)
DirectCall == additive([args EXCEPT !.fc = 0])

\* C7: estimate_parameters() with alpha, beta and gamma supplied returns
\* them, and the RMSE between the observations and the yhat of additive()
\* called with the same alpha, beta, gamma, phi, l0, b0, s0, sigma0, yhat0,
\* zthresh and hstep.
C7_EstimateFixed ==
    (pc = "estimated" /\ est.exc = NoExc /\ DirectCall.exc = NoExc) =>
        /\ est.alpha = Val(args.alpha)
        /\ est.beta = Val(args.beta)
        /\ est.gamma = Val(args.gamma)
        /\ est.rmse = RMSE(args.yobs, DirectCall.ret.yhat)

\* the sigma output of the call with observation j (counted from 1)
\* replaced by x agrees with the sigma returned on every step before j
SameSigmaBefore(j, x) ==
    LET alt == additive([args EXCEPT !.yobs[j] = x]).ret
    IN  \A i \in 1..(j - 1) : alt.sigma[i] = ret.sigma[i]

\* C8 as claimed: the sigma of a step does not depend on later
\* observations, also when sigma0, l0, b0 and s0 are left to the defaults.
C8_NoLookAhead ==
    (pc = "done" /\ off = 0) =>
        \A j \in 2..Len(args.yobs) :
            \A x \in ObsVals \ {args.yobs[j]} : SameSigmaBefore(j, x)

\* C8, amended: the sigma of a step does not depend on later observations
\* when sigma0, l0, b0 and s0 are supplied (checked on the calls that start
\* a series).
C8_NoLookAheadGiven ==
    (pc = "done" /\ off = 0 /\ GivenState(args)) =>
        \A j \in 2..Len(args.yobs) :
            \A x \in ObsVals \ {args.yobs[j]} : SameSigmaBefore(j, x)

\* a call with its state supplied returned after three observations, the
\* first two of them present
C8_Witness ==
    /\ pc = "done" /\ off = 0 /\ GivenState(args)
    /\ Len(args.yobs) >= 3
    /\ ~isnan(args.yobs[1]) /\ ~isnan(args.yobs[2])

\* the residual of the step the loop takes from this state
StepResidual == sub[At(args.yobs, loc.i), At(loc'.yhat, loc.i)]

\* the loop takes a step whose observation is present and fails the test
\* |e| > zthresh * sigma[i]
RejectingStep ==
    /\ pc = "loop" /\ loc'.i = loc.i + 1
    /\ loc.i < Len(args.yobs)
    /\ gt[abs[StepResidual], mul[args.zthresh, At(loc.sigma, loc.i)]]

\* the locals after the same step with its observation missing
MissingStep == LoopBody([args EXCEPT !.yobs[loc.i + 1] = NaN], loc)

Assimilated == \E j \in 1..Len(loc.br) : loc.br[j] = "smooth"

\* every observation is present and sits at one value
ConstantSeries ==
    \A k \in 1..Len(stream) : stream[k] = stream[1] /\ ~isnan(stream[k])

\* C10: with alpha > 0 and zthresh > 1, observations that stay at one value
\* are not rejected for ever: after finitely many rejected steps sigma has
\* grown enough for one to be assimilated.
C10_EventualAssimilation ==
    (/\ gt[Val(args.alpha), Zero] /\ gt[args.zthresh, One]
     /\ ConstantSeries) => <>Assimilated

\* an observation at the shifted value was assimilated after two steps in a
\* row that rejected it
C10_Witness ==
    /\ pc = "loop"
    /\ Len(loc.br) >= 3
    /\ loc.br[Len(loc.br)] = "smooth"
    /\ loc.br[Len(loc.br) - 1] = "reject"
    /\ loc.br[Len(loc.br) - 2] = "reject"

\* the value most recently assigned to a station by any instance, 1.0 for a
\* station never assigned
LastWritten(w, st) == IF st \in DOMAIN w THEN w[st] ELSE One

\* the step is a call of op by an instance: the instance
Caller(op) ==
    IF ncalls' = ncalls + 1 /\ out'.op = op THEN {out'.inst} ELSE {}

\* the table holds the scales of instance a for its observatories
HoldsScales(C, a) ==
    \A k \in 1..Len(a.observatories) :
        (\A j \in (k + 1)..Len(a.observatories) :
            a.observatories[j] # a.observatories[k]) =>
                /\ a.observatories[k] \in DOMAIN C
                /\ C[a.observatories[k]] = Val(a.scales[k])

\* C11: CORR is process-wide. The factor process() multiplies a station's
\* data by is the value most recently assigned to CORR for that station by
\* any instance, and 1.0 for a station never assigned; CORR is assigned only
\* by configure() with scales[0] not None and by process() with scales[0]
\* truthy; and a process() call with truthy scales[0] that fails
\* check_stream() has assigned its scales all the same.
C11_ProcessWideTable ==
    [][/\ \A i \in Caller("process") :
            out'.exc = NoExc =>
                \A k \in 1..Len(algs'[i].observatories) :
                    out'.latcorr[k] =
                        LastWritten(written', algs'[i].observatories[k])
       /\ \A i \in Caller("process") :
            (/\ out'.exc.type = "AlgorithmException"
             /\ Truthy(algs'[i].scales[1])) =>
                /\ HoldsScales(CORR', algs'[i])
                /\ HoldsScales(written', algs'[i])
       /\ (CORR' # CORR \/ written' # written) =>
            \/ \E i \in Caller("configure") :
                  algs'[i].scales[1].kind # "none"
            \/ \E i \in Caller("process") : Truthy(algs'[i].scales[1])]_vars

\* an instance constructed with the default scales has run process() with
\* a factor for BOU that the other instance assigned
C11_Witness ==
    /\ out.op = "process" /\ out.exc = NoExc
    /\ algs[out.inst].scales = <<None>>
    /\ algs[out.inst].observatories = <<"HON", "BOU">>
    /\ out.latcorr[2] = I(3)
    /\ \E i \in Insts \ {out.inst} :
          algs[i].scales = <<Scalar(I(2)), Scalar(I(3))>>

====
